---------------------------- MODULE Spec2Model ----------------------------
(***************************************************************************)
(* Message-tree consistency engine of legal-ease.                          *)
(*                                                                         *)
(* State: the `message` table (app/models.py) and the outcome of the last  *)
(* request served.  One action per HTTP handler of app/api/routes/         *)
(* web_app.py that reads or writes the message table; the helpers are the  *)
(* functions of app/crud.py and app/api/routes/tree_generation.py.         *)
(*                                                                         *)
(* Database semantics used by the model:                                   *)
(*  - `id` is an INTEGER PRIMARY KEY without AUTOINCREMENT, so a new row   *)
(*    gets max(id)+1 over the whole table (1 when the table is empty);     *)
(*  - the foreign keys declared in app/models.py are enforced by the       *)
(*    engine of app/core/db.py (the handlers and the tests rely on its     *)
(*    CASCADE constraints taking effect);                                  *)
(*  - a SELECT without ORDER BY returns rows in ascending id order.        *)
(***************************************************************************)
EXTENDS Integers, Sequences, FiniteSets, TLC

\* messages: the rows of the message table
\* last:     the outcome of the last request of an observed handler
\* observed: the handlers whose outcomes are recorded in `last`; fixed by
\*           the initial condition, never changed
\* gen:      the create_tree call in progress: what each of its three
\*           calls got and returned, the order in which they finished, how
\*           many of them the loop has taken, and what create_tree returned
\* selecting: the message ids of the select requests that have passed their
\*           checks and have not yet written
\* simulations: the rows of the simulation table (the trees)
\* cases:    the ids of the rows of the case table
\* bookmarks: the rows of the bookmark table
\* saving:   the save_messages_to_tree call in progress: the table it
\*           started from, its arguments and the number of its commits that
\*           went through
VARIABLES messages, last, observed, gen, selecting, simulations, cases, bookmarks, saving

vars == <<messages, last, observed, gen, selecting, simulations, cases, bookmarks, saving>>

\* the tables no message handler writes to directly
tables == <<simulations, cases, bookmarks>>

(* ---------------------------- bounds ---------------------------------- *)

\* the largest id the model lets the database hand out: an insert that
\* would need a larger id is not taken
MaxId == 3

\* the largest id the model lets the database hand out to a bookmark
MaxBookmarkId == 2

(* --------------------------- constants -------------------------------- *)

\* SQL NULL / Python None for an integer column or parameter
NULL == 0

\* ids of the rows the `simulation` table starts with (two trees), and one
\* id that is not a row
Simulations == {1, 2}
NoSimulation == 3

\* ids of the rows the `case` table starts with, and one id that is not a
\* row
Cases == {1, 2}
NoCase == 3

\* a simulation row
Simulation(id, case_id) == [id |-> id, case_id |-> case_id]

\* the ids of the simulation rows
SimulationIds == {s.id : s \in simulations}

(* ----------------------- the message table ---------------------------- *)

\* class Message: one row of the table
Message(id, content, role, selected, simulation_id, parent_id) ==
    [id |-> id, content |-> content, role |-> role, selected |-> selected,
     simulation_id |-> simulation_id, parent_id |-> parent_id]

Ids(store) == {m.id : m \in store}

\* session.get(Message, id); only used where the row exists
Get(store, id) == CHOOSE m \in store : m.id = id

Exists(store, id) == \E m \in store : m.id = id

SetMax(S) == CHOOSE x \in S : \A y \in S : y <= x

SetMin(S) == CHOOSE x \in S : \A y \in S : x <= y

\* the id the database gives to the next inserted row
NextId(store) == IF store = {} THEN 1 ELSE SetMax(Ids(store)) + 1

\* Message without the foreign key on parent_id
ForeignKeysHold_NoParentKey(store) ==
    \A m \in store : m.simulation_id \in SimulationIds

\* the two foreign keys of Message: simulation_id and parent_id
ForeignKeysHold(store) ==
    \A m \in store :
        /\ m.simulation_id \in SimulationIds
        /\ m.parent_id # NULL => m.parent_id \in Ids(store)

\* a statement is accepted by the engine iff the table it leaves behind
\* satisfies the declared foreign keys (checked at the end of the statement)
Accepted(store) == ForeignKeysHold(store)

\* session.add(Message(...)); session.commit(); session.refresh(...)
\* result: the table after the insert, the new id, and whether the insert
\* was accepted (IntegrityError otherwise, table unchanged)
Insert(store, content, role, selected, simulation_id, parent_id) ==
    LET new == Message(NextId(store), content, role, selected,
                       simulation_id, parent_id)
        after == store \cup {new}
    IN  IF Accepted(after)
        THEN [ok |-> TRUE, store |-> after, id |-> new.id]
        ELSE [ok |-> FALSE, store |-> store, id |-> NULL]

\* select(Message).where(Message.parent_id == message_id); a None
\* message_id compares with IS NULL
Children(store, message_id) == {m \in store : m.parent_id = message_id}

(* --------------------------- last request ----------------------------- *)

\* the tree recorded for a request that never called create_tree
NoTree == [line |-> "", speaker |-> "", responses |-> <<>>]

\* what the last handler was called with and what it answered
\* op: the handler; id: the message_id it was given (NULL when it takes
\* none or stops before it looks at it); refresh: the refresh flag of continue-conversation; phase: the
\* step at which continue-conversation stopped; status: the HTTP status
\* (NoResponse when the handler never returns); ret: the value returned
\* (the id of the row returned, the deleted count, or the id named in an
\* error detail); deleted: the ids the handler's delete step removed;
\* rolled_back: a commit of the delete step failed and was rolled back;
\* tree_id: the tree_id the persist was given; tree: the tree create_tree
\* returned; faulted: the engine failed a commit of the persist; inserted:
\* the ids of the rows the persist step left in the table; path: the ids
\* of the rows a traversal returned, in the order returned; nested: the
\* nested entries [id, children] a tree-messages request returned
Outcome(op, id, refresh, phase, status, ret, deleted) ==
    [op |-> op, id |-> id, refresh |-> refresh, phase |-> phase,
     status |-> status, ret |-> ret, deleted |-> deleted,
     rolled_back |-> FALSE, tree_id |-> NULL, tree |-> NoTree,
     faulted |-> FALSE, inserted |-> {}, path |-> <<>>, nested |-> <<>>]

Handlers ==
    {"select", "create", "summarized", "trim", "continue", "traversal",
     "range", "tree", "bookmark", "unbookmark", "delete_simulation",
     "delete_case"}

\* continue-conversation is observed in two parts: "continue" records the
\* request up to the path walk (refresh, deleted, rolled_back), "persist"
\* the generation and the persist (status, tree_id, tree, faulted,
\* inserted)
Steps == {"persist"}

\* `last` after a request of a handler that is not observed
Unobserved == Outcome("other", NULL, FALSE, "", NULL, NULL, {})

\* the part of an outcome that is recorded
Recorded(outcome) ==
    IF outcome.op # "continue"
    THEN IF outcome.op \in observed THEN outcome ELSE Unobserved
    ELSE IF observed \cap {"continue", "persist"} = {}
    THEN Unobserved
    ELSE [outcome EXCEPT
            !.refresh = IF "continue" \in observed THEN @ ELSE FALSE,
            !.deleted = IF "continue" \in observed THEN @ ELSE {},
            !.rolled_back = IF "continue" \in observed THEN @ ELSE FALSE,
            !.status = IF "persist" \in observed THEN @ ELSE NULL,
            !.tree_id = IF "persist" \in observed THEN @ ELSE NULL,
            !.tree = IF "persist" \in observed THEN @ ELSE NoTree,
            !.faulted = IF "persist" \in observed THEN @ ELSE FALSE,
            !.inserted = IF "persist" \in observed THEN @ ELSE {}]

\* a bookmark row
Bookmark(id, simulation_id, message_id, name) ==
    [id |-> id, simulation_id |-> simulation_id, message_id |-> message_id,
     name |-> name]

\* the bookmark table with ON DELETE CASCADE on simulation_id only
Cascaded_SimulationOnly(marks, store, sims) ==
    {b \in marks : \E s \in sims : s.id = b.simulation_id}

\* Bookmark.simulation_id and Bookmark.message_id are declared ON DELETE
\* CASCADE: a statement that deletes a message or a simulation deletes the
\* bookmarks that refer to it
Cascaded(marks, store, sims) ==
    {b \in marks : /\ Exists(store, b.message_id)
                   /\ \E s \in sims : s.id = b.simulation_id}

\* the handler answers: its outcome is recorded when it is observed
Answer(outcome) ==
    /\ last' = Recorded(outcome)
    /\ observed' = observed

\* the answer of a handler that runs from start to end in one step
Respond(outcome) ==
    /\ Answer(outcome)
    /\ gen' = gen
    /\ selecting' = selecting
    /\ saving' = saving
    /\ simulations' = simulations
    /\ cases' = cases
    /\ bookmarks' = Cascaded(bookmarks, messages', simulations)

(* ------------------------------ select -------------------------------- *)

\* update_message_selected without the sibling query
UpdateMessageSelected_NoSiblingCheck(store, message_id) ==
    IF ~Exists(store, message_id)
    THEN [status |-> 404, store |-> store, detail |-> NULL]
    ELSE
      LET message == Get(store, message_id)
          parentBad ==
              /\ message.parent_id # NULL
              /\ \/ ~Exists(store, message.parent_id)
                 \/ ~Get(store, message.parent_id).selected
      IN  IF parentBad
          THEN [status |-> 400, store |-> store, detail |-> NULL]
          ELSE [status |-> 200,
                store |-> (store \ {message})
                             \cup {[message EXCEPT !.selected = TRUE]},
                detail |-> message.id]

\* update_message_selected with a sibling query that does not filter on
\* simulation_id
UpdateMessageSelected_AnyTreeSibling(store, message_id) ==
    IF ~Exists(store, message_id)
    THEN [status |-> 404, store |-> store, detail |-> NULL]
    ELSE
      LET message == Get(store, message_id)
          parentBad ==
              /\ message.parent_id # NULL
              /\ \/ ~Exists(store, message.parent_id)
                 \/ ~Get(store, message.parent_id).selected
          selected_sibling ==
              {m \in store : /\ m.parent_id = message.parent_id
                             /\ m.id # message_id
                             /\ m.selected}
      IN  IF parentBad
          THEN [status |-> 400, store |-> store, detail |-> NULL]
          ELSE IF selected_sibling # {}
          THEN [status |-> 400, store |-> store,
                detail |-> SetMin({m.id : m \in selected_sibling})]
          ELSE [status |-> 200,
                store |-> (store \ {message})
                             \cup {[message EXCEPT !.selected = TRUE]},
                detail |-> message.id]

\* update_message_selected without the check of the parent
UpdateMessageSelected_NoParentCheck(store, message_id) ==
    IF ~Exists(store, message_id)
    THEN [status |-> 404, store |-> store, detail |-> NULL]
    ELSE
      LET message == Get(store, message_id)
          selected_sibling ==
              {m \in store : /\ m.parent_id = message.parent_id
                             /\ m.id # message_id
                             /\ m.simulation_id = message.simulation_id
                             /\ m.selected}
      IN  IF selected_sibling # {}
          THEN [status |-> 400, store |-> store,
                detail |-> SetMin({m.id : m \in selected_sibling})]
          ELSE [status |-> 200,
                store |-> (store \ {message})
                             \cup {[message EXCEPT !.selected = TRUE]},
                detail |-> message.id]

\* update_message_selected writing and committing the flag before the check
\* of the siblings
UpdateMessageSelected_WriteBeforeSiblingCheck(store, message_id) ==
    IF ~Exists(store, message_id)
    THEN [status |-> 404, store |-> store, detail |-> NULL]
    ELSE
      LET message == Get(store, message_id)
          parentBad ==
              /\ message.parent_id # NULL
              /\ \/ ~Exists(store, message.parent_id)
                 \/ ~Get(store, message.parent_id).selected
          selected_sibling ==
              {m \in store : /\ m.parent_id = message.parent_id
                             /\ m.id # message_id
                             /\ m.simulation_id = message.simulation_id
                             /\ m.selected}
          written == (store \ {message})
                        \cup {[message EXCEPT !.selected = TRUE]}
      IN  IF parentBad
          THEN [status |-> 400, store |-> store, detail |-> NULL]
          ELSE IF selected_sibling # {}
          THEN [status |-> 400, store |-> written,
                detail |-> SetMin({m.id : m \in selected_sibling})]
          ELSE [status |-> 200, store |-> written, detail |-> message.id]

\* crud.update_message_selected; detail is the id of the row returned, or
\* the sibling id named in the error detail (NULL when none is named)
UpdateMessageSelected(store, message_id) ==
    IF ~Exists(store, message_id)
    THEN [status |-> 404, store |-> store, detail |-> NULL]
    ELSE
      LET message == Get(store, message_id)
          parentBad ==
              /\ message.parent_id # NULL
              /\ \/ ~Exists(store, message.parent_id)
                 \/ ~Get(store, message.parent_id).selected
          selected_sibling ==
              {m \in store : /\ m.parent_id = message.parent_id
                             /\ m.id # message_id
                             /\ m.simulation_id = message.simulation_id
                             /\ m.selected}
      IN  IF parentBad
          THEN [status |-> 400, store |-> store, detail |-> NULL]
          ELSE IF selected_sibling # {}
          THEN [status |-> 400, store |-> store,
                detail |-> SetMin({m.id : m \in selected_sibling})]
          ELSE [status |-> 200,
                store |-> (store \ {message})
                             \cup {[message EXCEPT !.selected = TRUE]},
                detail |-> message.id]

\* PATCH /messages/{message_id}/select
SelectMessage ==
    \E message_id \in 1..MaxId :
        \E r \in {UpdateMessageSelected(messages, message_id)} :
            /\ messages' = r.store
            /\ Respond(Outcome("select", message_id, FALSE, "",
                               r.status, r.detail, {}))

\* Two requests are served by two threads, each with its own session; no
\* lock is taken and no statement of update_message_selected locks a row.
\* The first half of update_message_selected: the three reads and their
\* checks, on the table as committed at that moment
SelectCheck ==
    \E message_id \in 1..MaxId :
        \E r \in {UpdateMessageSelected(messages, message_id)} :
            /\ message_id \notin selecting
            /\ messages' = messages
            /\ IF r.status = 200
               THEN /\ selecting' = selecting \cup {message_id}
                    /\ UNCHANGED <<last, observed, gen, tables, saving>>
               ELSE Respond(Outcome("select", message_id, FALSE, "",
                                    r.status, r.detail, {}))

\* the second half of update_message_selected: message.selected = True and
\* the commit (the UPDATE addresses the row by its id)
SelectCommit ==
    \E message_id \in selecting :
        /\ messages' = {IF m.id = message_id
                        THEN [m EXCEPT !.selected = TRUE]
                        ELSE m : m \in messages}
        /\ selecting' = selecting \ {message_id}
        /\ gen' = gen
        /\ UNCHANGED <<tables, saving>>
        /\ Answer(Outcome("select", message_id, FALSE, "", 200,
                          message_id, {}))

(* ------------------------- manual creation ---------------------------- *)

\* texts and roles a caller supplies; the summaries the collaborator
\* returns ("" when it returns none)
Contents == {"text"}
Roles == {"A"}
Summaries == {"", "text"}

\* POST /messages/create
CreateMessage ==
    /\ NextId(messages) <= MaxId
    /\ \E simulation_id \in Simulations \cup {NoSimulation},
          parent_id \in 0..MaxId,
          content \in Contents, role \in Roles :
        \E r \in {Insert(messages, content, role, TRUE, simulation_id,
                          parent_id)} :
            /\ messages' = r.store
            /\ Respond(Outcome("create", NULL, FALSE, "",
                               IF r.ok THEN 200 ELSE 500, r.id, {}))

\* summarize_dialogue: the text stored for a summarized message; the
\* summary when the collaborator returns one, the user's input otherwise
Summarized(user_input, summary) ==
    IF summary # "" THEN summary ELSE user_input

\* POST /messages/create-summarized; the second disjunct is the
\* collaborator call raising, which the handler turns into a 500
CreateSummarizedMessage ==
    /\ NextId(messages) <= MaxId
    /\ \/ \E simulation_id \in Simulations \cup {NoSimulation},
             parent_id \in 0..MaxId,
             user_input \in Contents, role \in Roles,
             summary \in Summaries :
            \E r \in {Insert(messages, Summarized(user_input, summary),
                              role, FALSE, simulation_id, parent_id)} :
                /\ messages' = r.store
                /\ Respond(Outcome("summarized", NULL, FALSE, "",
                                   IF r.ok THEN 200 ELSE 500, r.id, {}))
       \/ /\ messages' = messages
          /\ Respond(Outcome("summarized", NULL, FALSE, "", 500, NULL, {}))

(* ------------------------------- trim --------------------------------- *)

\* the bulk DELETE without the filter on simulation_id
AfterCutoff_AnyTree(store, simulation_id, last_child_id) ==
    {m \in store : m.id > last_child_id}

\* the rows the bulk DELETE of delete_messages_after_children matches
AfterCutoff(store, simulation_id, last_child_id) ==
    {m \in store : /\ m.simulation_id = simulation_id
                   /\ m.id > last_child_id}

\* delete_messages_after_children without the check that the target exists
DeleteMessagesAfterChildren_NoTargetCheck(store, message_id) ==
    LET children == Children(store, message_id)
        last_child_id == IF children # {}
                         THEN SetMax({c.id : c \in children})
                         ELSE message_id
        doomed == {m \in store : m.id > last_child_id}
        after == store \ doomed
    IN  IF Accepted(after)
        THEN [status |-> 200, store |-> after,
              rowcount |-> Cardinality(doomed)]
        ELSE [status |-> 500, store |-> store, rowcount |-> 0]

\* crud.delete_messages_after_children; status 404 stands for the
\* ValueError, 500 for the IntegrityError of a rejected DELETE
DeleteMessagesAfterChildren(store, message_id) ==
    IF ~Exists(store, message_id)
    THEN [status |-> 404, store |-> store, rowcount |-> 0]
    ELSE
      LET target == Get(store, message_id)
          children == Children(store, message_id)
          last_child_id == IF children # {}
                           THEN SetMax({c.id : c \in children})
                           ELSE message_id
          doomed == AfterCutoff(store, target.simulation_id, last_child_id)
          after == store \ doomed
      IN  IF Accepted(after)
          THEN [status |-> 200, store |-> after,
                rowcount |-> Cardinality(doomed)]
          ELSE [status |-> 500, store |-> store, rowcount |-> 0]

\* DELETE /messages/trim-after/{message_id}
TrimMessagesAfterChildren ==
    \E message_id \in 1..MaxId :
        \E r \in {DeleteMessagesAfterChildren(messages, message_id)} :
            /\ messages' = r.store
            /\ Respond(Outcome("trim", message_id, FALSE, "",
                               r.status, r.rowcount,
                               Ids(messages) \ Ids(r.store)))

(* --------------------------- delete-subtree --------------------------- *)

\* A session is the table as the open transaction sees it (cur), the
\* table as last committed (dur), the number of writing commits the request
\* has issued (commits), whether one of them was rolled back (rolled_back)
\* and whether an exception is propagating (err).
Session(store) ==
    [cur |-> store, dur |-> store, commits |-> 0, rolled_back |-> FALSE,
     err |-> FALSE]

\* session.commit() inside `try`, session.rollback() in the `except`.  A
\* commit with nothing to write does nothing; one that writes fails when
\* the engine fails it (the fault-th writing commit of the request; fault
\* 0: none) or when it flushes a rejected DELETE
Commit(sess, fault) ==
    IF sess.cur = sess.dur
    THEN sess
    ELSE IF sess.commits + 1 = fault \/ ~Accepted(sess.cur)
    THEN [sess EXCEPT !.cur = sess.dur, !.commits = @ + 1,
                      !.rolled_back = TRUE]
    ELSE [sess EXCEPT !.dur = sess.cur, !.commits = @ + 1]

\* depth counts the frames left before the interpreter raises
\* RecursionError.
RECURSIVE DeleteMessagesIncludingChildren(_, _, _, _)
RECURSIVE DeleteEachChild(_, _, _, _)

\* crud.delete_messages_including_children: the children are read once,
\* each child's descendants are deleted by the recursive call, then the
\* child; the commit at the end of every call makes the deletes so far
\* durable (a failed commit is rolled back and the function returns False,
\* which no caller looks at)
DeleteMessagesIncludingChildren(sess, message_id, depth, fault) ==
    IF depth = 0
    THEN [sess EXCEPT !.err = TRUE]
    ELSE
      LET children == {c.id : c \in Children(sess.cur, message_id)}
          r == DeleteEachChild(sess, children, depth, fault)
      IN  IF r.err THEN r ELSE Commit(r, fault)

\* the `for child in children` loop, in ascending id order.  The DELETE of
\* session.delete(child) is flushed by the next statement: the query of
\* the next child's call, where a rejected DELETE raises, or the commit
\* after the loop
DeleteEachChild(sess, children, depth, fault) ==
    IF children = {}
    THEN sess
    ELSE
      LET child == SetMin(children)
          rest == children \ {child}
          r == DeleteMessagesIncludingChildren(sess, child, depth - 1, fault)
          after == {m \in r.cur : m.id # child}
      IN  IF r.err THEN r
          ELSE IF rest # {} /\ ~Accepted(after)
          THEN [r EXCEPT !.cur = r.dur, !.err = TRUE]
          ELSE DeleteEachChild([r EXCEPT !.cur = after], rest, depth, fault)

\* frames available to a recursion over the table: more than any descent
\* through distinct rows needs, so that only a cyclic descent exhausts them
RecursionLimit(store) == Cardinality(store) + 2

(* ---------------------------- path walk ------------------------------- *)

\* the status of a request whose handler never returns
NoResponse == 0

\* crud.get_messages_by_tree with a message_id: the `while current_id is
\* not None` loop.  steps bounds the walk in the model: a walk that is
\* still going after visiting more rows than the table holds never ends.
RECURSIVE WalkUp(_, _, _, _)
WalkUp(store, current_id, ordered, steps) ==
    IF current_id = NULL \/ ~Exists(store, current_id)
    THEN [ordered |-> ordered, ends |-> TRUE]
    ELSE IF steps = 0
    THEN [ordered |-> ordered, ends |-> FALSE]
    ELSE LET message == Get(store, current_id)
         IN  WalkUp(store, message.parent_id, <<message>> \o ordered,
                    steps - 1)

PathToRoot(store, message_id) ==
    WalkUp(store, message_id, <<>>, Cardinality(store) + 1)

(* ---------------------------- traversal ------------------------------- *)

\* the ids of a set of rows in ascending order
RECURSIVE SortedIds(_)
SortedIds(S) ==
    IF S = {} THEN <<>>
    ELSE <<SetMin(S)>> \o SortedIds(S \ {SetMin(S)})

\* crud.get_messages_by_tree without a message_id: dfs(parent_id) over the
\* rows of the tree, the children of a row in ascending id order
RECURSIVE Dfs(_, _)
RECURSIVE DfsEach(_, _)
Dfs(rows, parent_id) ==
    DfsEach(rows, SortedIds({m.id : m \in Children(rows, parent_id)}))

\* the `for msg in children_map.get(parent_id, [])` loop
DfsEach(rows, children) ==
    IF children = <<>> THEN <<>>
    ELSE <<Head(children)>> \o Dfs(rows, Head(children))
                           \o DfsEach(rows, Tail(children))

\* get_messages_by_tree emitting the rows of the tree by id, with no descent
GetMessagesByTree_IdOrder(store, tree_id, message_id) ==
    IF message_id # NULL
    THEN [ends |-> PathToRoot(store, message_id).ends,
          ids |-> [k \in 1..Len(PathToRoot(store, message_id).ordered) |->
                      PathToRoot(store, message_id).ordered[k].id]]
    ELSE [ends |-> TRUE,
          ids |-> SortedIds({m.id : m \in {r \in store :
                                              r.simulation_id = tree_id}})]

\* crud.get_messages_by_tree(to_conversation=False): the ids of the rows
\* returned, and whether the call returns at all
GetMessagesByTree(store, tree_id, message_id) ==
    IF message_id # NULL
    THEN LET Ordered(walk) ==
                 [ends |-> walk.ends,
                  ids |-> [k \in 1..Len(walk.ordered) |->
                              walk.ordered[k].id]]
         IN  Ordered(PathToRoot(store, message_id))
    ELSE [ends |-> TRUE,
          ids |-> Dfs({m \in store : m.simulation_id = tree_id}, NULL)]

\* GET /trees/{simulation_id}/messages/traversal
GetMessagesByTreeEndpoint ==
    \E simulation_id \in Simulations \cup {NoSimulation},
       message_id \in 0..MaxId :
        \E r \in {GetMessagesByTree(messages, simulation_id, message_id)} :
            /\ messages' = messages
            /\ Respond([Outcome("traversal", message_id, FALSE, "",
                                IF r.ends THEN 200 ELSE NoResponse,
                                NULL, {})
                          EXCEPT !.tree_id = simulation_id,
                                 !.path = IF r.ends THEN r.ids ELSE <<>>])

(* ---------------------------- tree-messages --------------------------- *)

\* crud.get_tree: the rows dfs(None) reaches among the rows of the tree
\* (the result is sorted by id before it is returned)
GetTree(store, tree_id) ==
    LET reached == Dfs({m \in store : m.simulation_id = tree_id}, NULL)
    IN  {m \in store : \E k \in 1..Len(reached) : reached[k] = m.id}

\* get_tree_messages_endpoint.build_tree: by_parent over the rows get_tree
\* returned, every group sorted by id
RECURSIVE BuildTree(_, _)
BuildTree(rows, parent_id) ==
    LET children == SortedIds({m.id : m \in Children(rows, parent_id)})
    IN  [k \in 1..Len(children) |->
            [id |-> children[k], children |-> BuildTree(rows, children[k])]]

\* GET /trees/{simulation_id}/messages
GetTreeMessagesEndpoint ==
    \E simulation_id \in Simulations \cup {NoSimulation} :
        \E rows \in {GetTree(messages, simulation_id)} :
            /\ messages' = messages
            /\ IF rows = {}
               THEN Respond([Outcome("tree", NULL, FALSE, "", 404, NULL, {})
                             EXCEPT !.tree_id = simulation_id])
               ELSE Respond([Outcome("tree", NULL, FALSE, "", 200, NULL, {})
                             EXCEPT !.tree_id = simulation_id,
                                    !.nested = BuildTree(rows, NULL)])

(* --------------------------- selected range --------------------------- *)

\* get_selected_messages_between with the upper bound left out
GetSelectedMessagesBetween_NoUpperBound(store, start_id, end_id) ==
    SortedIds({m.id : m \in {r \in store : r.selected /\ r.id >= start_id}})

\* crud.get_selected_messages_between: the ids of the rows selected by
\* WHERE selected AND id >= start_id AND id <= end_id ORDER BY id
GetSelectedMessagesBetween(store, start_id, end_id) ==
    SortedIds({m.id : m \in {r \in store : /\ r.selected
                                            /\ r.id >= start_id
                                            /\ r.id <= end_id}})

\* GET /messages/selected-path; the outcome keeps start_id in `id` and
\* end_id in `ret`
GetSelectedMessagesPath ==
    \E start_id \in 0..MaxId, end_id \in 0..MaxId :
        \E found \in {GetSelectedMessagesBetween(messages, start_id, end_id)} :
            /\ messages' = messages
            /\ IF start_id > end_id
               THEN Respond(Outcome("range", start_id, FALSE, "", 400,
                                    end_id, {}))
               ELSE IF found = <<>>
               THEN Respond(Outcome("range", start_id, FALSE, "", 404,
                                    end_id, {}))
               ELSE Respond([Outcome("range", start_id, FALSE, "", 200,
                                     end_id, {})
                             EXCEPT !.path = found])

(* ------------------------- generation persist ------------------------- *)

\* schemas.TreeNode as create_tree returns it (model_dump): level 1 with
\* its level-2 responses, each with its level-3 responses; shape[i] is the
\* number of level-3 responses under the i-th level-2 response
TreeData(shape) ==
    [line |-> "text", speaker |-> "A",
     responses |->
        [i \in 1..Len(shape) |->
            [line |-> "text", speaker |-> "A",
             responses |->
                [j \in 1..shape[i] |->
                    [line |-> "text", speaker |-> "A"]]]]]

\* an error tree that carries one level-2 response
SentinelTree_WithResponse ==
    [line |-> "Error: Could not generate proper dialogue tree",
     speaker |-> "A",
     responses |-> <<[line |-> "text", speaker |-> "A", responses |-> <<>>]>>]

\* the tree create_tree returns when all three calls fail
SentinelTree ==
    [line |-> "Error: Could not generate proper dialogue tree",
     speaker |-> "A", responses |-> <<>>]

\* the shapes of the trees the collaborator returns in the model
Shapes == {<<0>>, <<1>>, <<0, 0>>, <<0, 1>>}

\* number of rows in a tree, level 1 included
TreeSize(tree) ==
    LET RECURSIVE Sum(_)
        Sum(i) == IF i = 0 THEN 0
                  ELSE 1 + Len(tree.responses[i].responses) + Sum(i - 1)
    IN  1 + Sum(Len(tree.responses))

\* what create_tree can return
GenResults == {TreeData(shape) : shape \in Shapes} \cup {SentinelTree}

\* a persist in progress: the table, the number of commits of the persist
\* that went through, and whether it has failed
Saving(store) == [ok |-> TRUE, store |-> store, commits |-> 0]

\* session.add(row); session.commit(): the insert is durable unless the
\* engine fails this commit (the fault-th of the persist; fault 0: none) or
\* rejects the row
AddAndCommit(sv, content, role, selected, simulation_id, parent_id, fault) ==
    LET r == Insert(sv.store, content, role, selected, simulation_id,
                    parent_id)
    IN  IF sv.commits + 1 = fault \/ ~r.ok
        THEN [ok |-> FALSE, store |-> sv.store, commits |-> sv.commits,
              id |-> NULL]
        ELSE [ok |-> TRUE, store |-> r.store, commits |-> sv.commits + 1,
              id |-> r.id]

\* the level-2 loop of save_messages_to_tree: insert and commit
\* responses[i..] as unselected children of parent_id; ids holds the ids of
\* the rows inserted so far
RECURSIVE SaveResponses(_, _, _, _, _, _, _)
SaveResponses(sv, responses, i, simulation_id, parent_id, ids, fault) ==
    IF i > Len(responses)
    THEN [ok |-> TRUE, store |-> sv.store, commits |-> sv.commits,
          ids |-> ids]
    ELSE
      LET r == AddAndCommit(sv, responses[i].line, responses[i].speaker,
                            FALSE, simulation_id, parent_id, fault)
      IN  IF ~r.ok
          THEN [ok |-> FALSE, store |-> sv.store, commits |-> r.commits,
                ids |-> ids]
          ELSE SaveResponses(r, responses, i + 1, simulation_id, parent_id,
                             Append(ids, r.id), fault)

\* session.add of the rows of one level-3 list, flushed together later
RECURSIVE AddResponses(_, _, _, _, _)
AddResponses(store, responses, i, simulation_id, parent_id) ==
    IF i > Len(responses)
    THEN [ok |-> TRUE, store |-> store]
    ELSE
      LET r == Insert(store, responses[i].line, responses[i].speaker,
                      FALSE, simulation_id, parent_id)
      IN  IF ~r.ok
          THEN [ok |-> FALSE, store |-> store]
          ELSE AddResponses(r.store, responses, i + 1, simulation_id,
                            parent_id)

\* the level-3 loop: for the i-th level-2 row, add its responses
RECURSIVE SaveLevel3(_, _, _, _, _)
SaveLevel3(store, level2_responses, level2_messages, i, simulation_id) ==
    IF i > Len(level2_responses) \/ i > Len(level2_messages)
    THEN [ok |-> TRUE, store |-> store]
    ELSE
      LET r == AddResponses(store, level2_responses[i].responses, 1,
                            simulation_id, level2_messages[i])
      IN  IF ~r.ok
          THEN [ok |-> FALSE, store |-> store]
          ELSE SaveLevel3(r.store, level2_responses, level2_messages,
                          i + 1, simulation_id)

\* levels 2 and 3 under level1_id.  Every level-2 insert is committed on
\* its own; the level-3 inserts are committed together by the last commit,
\* so a failure there rolls back to the table after level 2.
SaveBelow(sv, scenarios_tree, simulation_id, level1_id, fault) ==
    LET l2 == SaveResponses(sv, scenarios_tree.responses, 1,
                            simulation_id, level1_id, <<>>, fault)
        l3 == SaveLevel3(l2.store, scenarios_tree.responses, l2.ids, 1,
                         simulation_id)
    IN  IF ~l2.ok \/ ~l3.ok
        THEN [status |-> 500, store |-> l2.store, commits |-> l2.commits]
        ELSE IF l3.store = l2.store
        THEN [status |-> 200, store |-> l2.store, commits |-> l2.commits]
        ELSE IF l2.commits + 1 = fault
        THEN [status |-> 500, store |-> l2.store, commits |-> l2.commits]
        ELSE [status |-> 200, store |-> l3.store,
              commits |-> l2.commits + 1]

\* save_messages_to_tree inserting level 1 as a new root whether or not a
\* last_message_id is given
SaveMessagesToTree_AlwaysNewRoot(store, tree, existing_tree_id, last_message_id, fault) ==
    LET l1 == AddAndCommit(Saving(store), tree.line, tree.speaker,
                           TRUE, existing_tree_id, NULL, fault)
    IN  IF ~l1.ok THEN [status |-> 500, store |-> store, commits |-> 0]
        ELSE SaveBelow(l1, tree, existing_tree_id, l1.id, fault)

\* tree_generation.save_messages_to_tree; any exception is answered by
\* session.rollback() and a 500, which undoes what was not yet committed
SaveMessagesToTree(store, tree, existing_tree_id, last_message_id, fault) ==
    IF last_message_id = NULL
    THEN \* new tree: level 1 becomes a selected root
      LET l1 == AddAndCommit(Saving(store), tree.line, tree.speaker,
                             TRUE, existing_tree_id, NULL, fault)
      IN  IF ~l1.ok THEN [status |-> 500, store |-> store, commits |-> 0]
          ELSE SaveBelow(l1, tree, existing_tree_id, l1.id, fault)
    ELSE \* continuation: the existing row is level 1
      IF ~Exists(store, last_message_id)
      THEN [status |-> 500, store |-> store, commits |-> 0]
      ELSE SaveBelow(Saving(store), tree, existing_tree_id,
                     last_message_id, fault)

\* the number of commits a persist issues when the engine fails none
SaveCommits(store, tree, existing_tree_id, last_message_id) ==
    SaveMessagesToTree(store, tree, existing_tree_id, last_message_id,
                       0).commits

\* no save_messages_to_tree call is in progress
NotSaving ==
    [phase |-> "idle", base |-> {}, tree |-> SentinelTree, tree_id |-> NULL, last_message_id |-> NULL, commits |-> 0]

\* save_messages_to_tree is called on its own session: nothing is committed
\* yet.  The arguments are those continue_conversation passes.
SaveBegin ==
    /\ saving.phase = "idle"
    /\ \E tree \in GenResults, tree_id \in Simulations, last_message_id \in 0..MaxId :
        /\ NextId(messages) + TreeSize(tree)
               <= MaxId + (IF last_message_id = NULL THEN 1 ELSE 2)
        /\ saving' = [phase |-> "saving", base |-> messages, tree |-> tree, tree_id |-> tree_id, last_message_id |-> last_message_id, commits |-> 0]
    /\ UNCHANGED <<messages, last, observed, gen, selecting, tables>>

\* the next session.commit() of the call goes through: the rows added since
\* the commit before are durable and visible to every other session.  The
\* table after n commits is the one a failure of commit n + 1 rolls back to
\* (computed from the table the call started on: no other request writes
\* while the call runs, see NextSaving).
SaveCommit ==
    /\ saving.phase = "saving"
    /\ saving.commits < SaveCommits(saving.base, saving.tree, saving.tree_id, saving.last_message_id)
    /\ messages' = SaveMessagesToTree(saving.base, saving.tree, saving.tree_id, saving.last_message_id, saving.commits + 2).store
    /\ saving' = [saving EXCEPT !.commits = @ + 1]
    /\ bookmarks' = Cascaded(bookmarks, messages', simulations)
    /\ UNCHANGED <<last, observed, gen, selecting, simulations, cases>>

\* save_messages_to_tree returns, after its last commit or after the
\* rollback of its except branch
SaveReturn ==
    /\ saving.phase = "saving"
    /\ saving.commits = SaveCommits(saving.base, saving.tree, saving.tree_id, saving.last_message_id)
    /\ saving' = NotSaving
    /\ UNCHANGED <<messages, last, observed, gen, selecting, tables>>

(* ---------------------------- create_tree ----------------------------- *)

\* the three futures of create_tree
Calls == {1, 2, 3}

\* what _create_tree_single returns when the call or the parse fails
None == [none |-> TRUE]

\* a parsed response in which a level-2 node lacks the required `line`
MalformedTree ==
    [line |-> "text", speaker |-> "A",
     responses |-> <<[speaker |-> "A", responses |-> <<>>]>>]

\* what the collaborator does with one call: the call raises, the content
\* is not JSON, or the content is JSON (data: the object under
\* scenarios_tree)
Responses ==
    {[kind |-> "raise", data |-> None], [kind |-> "text", data |-> None]}
      \cup {[kind |-> "json", data |-> TreeData(shape)] : shape \in Shapes}
      \cup {[kind |-> "json", data |-> MalformedTree]}

\* ScenariosTreeResponse(**tree_data): every node has the required fields
\* of TreeNode; `responses` defaults to [] and its length is not checked
RECURSIVE Validates(_)
Validates(node) ==
    /\ {"line", "speaker"} \subseteq DOMAIN node
    /\ "responses" \in DOMAIN node =>
          \A i \in 1..Len(node.responses) : Validates(node.responses[i])

\* _create_tree_single without the validation of the parsed object
CreateTreeSingle_NoValidation(response) ==
    IF response.kind = "json" THEN response.data ELSE None

\* _create_tree_single: the validated object, None on any exception
CreateTreeSingle(response) ==
    IF response.kind = "json" /\ Validates(response.data)
    THEN response.data
    ELSE None

\* no create_tree call in progress.  phase "returned": the loop has come
\* to a return statement, with the value `returned`; exited: the `with`
\* block of the executor has been left, so the caller has the value
Idle ==
    [phase |-> "idle",
     responses |-> [i \in Calls |-> [kind |-> "none", data |-> None]],
     results |-> [i \in Calls |-> None],
     completed |-> <<>>, taken |-> 0, returned |-> None, exited |-> FALSE]

\* create_tree up to the submission of the three calls; get_boson_client
\* raises when no API key is configured, which create_tree re-raises
CreateTreeSubmit ==
    /\ gen.phase # "racing"
    /\ \/ gen' = [Idle EXCEPT !.phase = "racing"]
       \/ gen' = [Idle EXCEPT !.phase = "raised"]
    /\ UNCHANGED <<messages, last, observed, selecting, tables, saving>>

\* one of the submitted calls finishes; the executor lets the calls that
\* are still running finish after create_tree has chosen its result
FutureCompletes ==
    /\ gen.phase \in {"racing", "returned"}
    /\ \E i \in Calls, response \in Responses :
        /\ \A k \in 1..Len(gen.completed) : gen.completed[k] # i
        /\ gen' = [gen EXCEPT !.responses[i] = response,
                              !.results[i] = CreateTreeSingle(response),
                              !.completed = Append(@, i)]
    /\ UNCHANGED <<messages, last, observed, selecting, tables, saving>>

\* ThreadPoolExecutor.__exit__ is shutdown(wait=True): the `with` block is
\* left once every submitted call has finished.  All three calls are
\* running from the start (max_workers=3), so f.cancel() cancels none
ShutdownDone(g) == Len(g.completed) = Cardinality(Calls)

\* one iteration of `for future in as_completed(futures)`: the next
\* finished future is taken; its result is returned unless it is None.
\* `return result` sits inside the `with` block
AsCompletedNext ==
    /\ gen.phase = "racing"
    /\ gen.taken < Len(gen.completed)
    /\ LET result == gen.results[gen.completed[gen.taken + 1]]
       IN  gen' = IF result # None
                  THEN [gen EXCEPT !.phase = "returned",
                                   !.taken = @ + 1,
                                   !.returned = result,
                                   !.exited = ShutdownDone(gen)]
                  ELSE [gen EXCEPT !.taken = @ + 1]
    /\ UNCHANGED <<messages, last, observed, selecting, tables, saving>>

\* the last outstanding call has finished: the `with` block is left and
\* create_tree hands its result to the caller
ExecutorShutdown ==
    /\ gen.phase = "returned"
    /\ ~gen.exited
    /\ ShutdownDone(gen)
    /\ gen' = [gen EXCEPT !.exited = TRUE]
    /\ UNCHANGED <<messages, last, observed, selecting, tables, saving>>

\* create_tree raising once the loop has taken all three futures
CreateTreeSentinel_Raises ==
    /\ gen.phase = "racing"
    /\ gen.taken = Cardinality(Calls)
    /\ gen' = [gen EXCEPT !.phase = "raised"]
    /\ UNCHANGED <<messages, last, observed, selecting, tables, saving>>

\* the loop has taken all three futures and none had a result: the error
\* tree is returned
CreateTreeSentinel ==
    /\ gen.phase = "racing"
    /\ gen.taken = Cardinality(Calls)
    /\ gen' = [gen EXCEPT !.phase = "returned", !.returned = SentinelTree,
                          !.exited = TRUE]
    /\ UNCHANGED <<messages, last, observed, selecting, tables, saving>>

(* ----------------------------- bookmarks ------------------------------ *)

\* names a caller gives to a bookmark
Names == {"name"}

\* the id the database gives to the next bookmark
NextBookmarkId(marks) ==
    IF marks = {} THEN 1 ELSE SetMax({b.id : b \in marks}) + 1

\* create_bookmark without the check for an existing bookmark
CreateBookmarkRow_NoExistingCheck(marks, store, sims, simulation_id, message_id, name) ==
    IF ~\E sim \in sims : sim.id = simulation_id
    THEN [status |-> 404, marks |-> marks]
    ELSE IF ~Exists(store, message_id)
    THEN [status |-> 404, marks |-> marks]
    ELSE [status |-> 200,
          marks |-> marks \cup {Bookmark(NextBookmarkId(marks),
                                         simulation_id, message_id, name)}]

\* crud.create_bookmark
CreateBookmarkRow(marks, store, sims, simulation_id, message_id, name) ==
    IF ~\E sim \in sims : sim.id = simulation_id
    THEN [status |-> 404, marks |-> marks]
    ELSE IF ~Exists(store, message_id)
    THEN [status |-> 404, marks |-> marks]
    ELSE IF \E b \in marks : /\ b.simulation_id = simulation_id
                              /\ b.message_id = message_id
    THEN [status |-> 400, marks |-> marks]
    ELSE [status |-> 200,
          marks |-> marks \cup {Bookmark(NextBookmarkId(marks),
                                         simulation_id, message_id, name)}]

\* POST /bookmarks; the outcome keeps message_id in `id` and
\* simulation_id in `tree_id`
CreateBookmarkEndpoint ==
    \E simulation_id \in Simulations \cup {NoSimulation},
       message_id \in 1..MaxId, name \in Names :
        \E r \in {CreateBookmarkRow(bookmarks, messages, simulations,
                                    simulation_id, message_id, name)} :
            /\ r.status = 200 => NextBookmarkId(bookmarks) <= MaxBookmarkId
            /\ bookmarks' = r.marks
            /\ UNCHANGED <<messages, simulations, cases, gen, selecting, saving>>
            /\ Answer([Outcome("bookmark", message_id, FALSE, "", r.status,
                               NULL, {})
                       EXCEPT !.tree_id = simulation_id])

\* DELETE /bookmarks/{bookmark_id}
DeleteBookmarkEndpoint ==
    \E bookmark_id \in 1..(MaxBookmarkId + 1) :
        /\ bookmarks' = {b \in bookmarks : b.id # bookmark_id}
        /\ UNCHANGED <<messages, simulations, cases, gen, selecting, saving>>
        /\ Answer(Outcome("unbookmark", bookmark_id, FALSE, "",
                          IF \E b \in bookmarks : b.id = bookmark_id
                          THEN 200 ELSE 404,
                          NULL, {}))

(* ----------------------- deleting trees and cases --------------------- *)

\* session.delete(row); session.commit() on a simulation or a case: the
\* simulations with an id in `gone` go (Simulation.case_id is ON DELETE
\* CASCADE), with them their messages (Message.simulation_id is ON DELETE
\* CASCADE) and the bookmarks of both.  The statement is rejected when a
\* message that stays has a parent that goes (Message.parent_id declares no
\* ON DELETE action); the IntegrityError is not handled
CascadeDelete(store, sims, marks, gone) ==
    LET kept == {m \in store : m.simulation_id \notin gone}
        left == {sim \in sims : sim.id \notin gone}
    IN  IF Accepted(kept)
        THEN [ok |-> TRUE, store |-> kept, sims |-> left,
              marks |-> Cascaded(marks, kept, left)]
        ELSE [ok |-> FALSE, store |-> store, sims |-> sims, marks |-> marks]

\* DELETE /simulations/{simulation_id}
DeleteSimulation ==
    \E simulation_id \in Simulations \cup {NoSimulation} :
        IF simulation_id \notin SimulationIds
        THEN /\ UNCHANGED <<messages, tables, gen, selecting, saving>>
             /\ Answer(Outcome("delete_simulation", simulation_id, FALSE, "",
                               404, NULL, {}))
        ELSE \E r \in {CascadeDelete(messages, simulations, bookmarks,
                                      {simulation_id})} :
             /\ messages' = r.store
             /\ simulations' = r.sims
             /\ bookmarks' = r.marks
             /\ UNCHANGED <<cases, gen, selecting, saving>>
             /\ Answer(Outcome("delete_simulation", simulation_id, FALSE, "",
                               IF r.ok THEN 200 ELSE 500, NULL,
                               Ids(messages) \ Ids(r.store)))

\* DELETE /cases/{case_id}
DeleteCase ==
    \E case_id \in Cases \cup {NoCase} :
        IF case_id \notin cases
        THEN /\ UNCHANGED <<messages, tables, gen, selecting, saving>>
             /\ Answer(Outcome("delete_case", case_id, FALSE, "", 404,
                               NULL, {}))
        ELSE \E r \in {CascadeDelete(messages, simulations, bookmarks,
                                      {sim.id : sim \in
                                          {x \in simulations :
                                              x.case_id = case_id}})} :
             /\ messages' = r.store
             /\ simulations' = r.sims
             /\ bookmarks' = r.marks
             /\ cases' = IF r.ok THEN cases \ {case_id} ELSE cases
             /\ UNCHANGED <<gen, selecting, saving>>
             /\ Answer(Outcome("delete_case", case_id, FALSE, "",
                               IF r.ok THEN 200 ELSE 500, NULL,
                               Ids(messages) \ Ids(r.store)))

(* ------------------------ continue-conversation ----------------------- *)

\* the number of writing commits the delete step of a request issues when
\* none of them fails
DeleteCommits(store, message_id, refresh) ==
    IF refresh
    THEN DeleteMessagesIncludingChildren(Session(store), message_id,
                                         RecursionLimit(store), 0).commits
    ELSE 0

\* POST /continue-conversation, from the case lookup to the persist:
\*   unknown case           -> 500 (the 404 is caught and re-raised)
\*   refresh                -> delete_messages_including_children
\*   get_messages_by_tree   -> the path walk (never returns on a cycle)
\*   create_tree            -> tree_data (any of GenResults)
\*   save_messages_to_tree
\* The engine fails at most one commit of a request: fault is the commit
\* of the delete step that fails, save_fault the commit of the persist that
\* fails (0: none).  The result of each step is bound once (\E over a
\* one-element set).  The case row is only looked up and read for the
\* prompt: which existing case the request names changes nothing.
ContinueConversation ==
    \/ \E case_id \in (Cases \cup {NoCase}) \ cases :
        /\ messages' = messages
        /\ Respond(Outcome("continue", NULL, FALSE, "case", 500, NULL, {}))
    \/ /\ \E case_id \in Cases \cup {NoCase} : case_id \in cases
       /\ \E message_id \in 0..MaxId, refresh \in BOOLEAN :
          \E fault \in 0..DeleteCommits(messages, message_id, refresh) :
          \E d \in {IF refresh
                    THEN DeleteMessagesIncludingChildren(
                             Session(messages), message_id,
                             RecursionLimit(messages), fault)
                    ELSE Session(messages)} :
          \E walk \in {PathToRoot(d.dur, message_id)} :
           LET deleted == Ids(messages) \ Ids(d.dur)
               stopped == Outcome("continue", message_id, refresh,
                                  IF d.err THEN "delete" ELSE "walk",
                                  IF d.err THEN 500 ELSE NoResponse,
                                  NULL, deleted)
           IN  IF d.err \/ ~walk.ends
               THEN /\ messages' = d.dur
                    /\ Respond([stopped EXCEPT !.rolled_back = d.rolled_back])
               ELSE \E tree_data \in GenResults :
                    /\ NextId(d.dur) + TreeSize(tree_data)
                           <= MaxId + (IF message_id = NULL THEN 1 ELSE 2)
                    /\ \E tree_id \in Simulations \cup {NULL} :
                       \E save_fault \in 0..(IF fault = 0
                                             THEN SaveCommits(d.dur, tree_data,
                                                      tree_id, message_id)
                                             ELSE 0) :
                       \E saved \in {SaveMessagesToTree(d.dur, tree_data,
                                                        tree_id, message_id,
                                                        save_fault)} :
                        LET done == Outcome("continue", message_id, refresh,
                                            "save", saved.status, NULL,
                                            deleted)
                        IN  /\ messages' = saved.store
                            /\ Respond([done EXCEPT
                                   !.rolled_back = d.rolled_back,
                                   !.tree_id = tree_id,
                                   !.tree = tree_data,
                                   !.faulted = save_fault # 0,
                                   !.inserted = Ids(saved.store) \ Ids(d.dur)])

Start == Outcome("init", NULL, FALSE, "", NULL, NULL, {})

\* the empty message and bookmark tables, the tree with id n in the case
\* with id n, with the handlers in hs observed
InitObserving(hs) ==
    /\ messages = {}
    /\ last = Start
    /\ observed = hs
    /\ gen = Idle
    /\ selecting = {}
    /\ simulations = {Simulation(id, id) : id \in Simulations}
    /\ cases = Cases
    /\ bookmarks = {}
    /\ saving = NotSaving

Init == InitObserving(Handlers \cup Steps)

Next ==
    \/ SelectMessage
    \/ CreateMessage
    \/ CreateSummarizedMessage
    \/ TrimMessagesAfterChildren
    \/ ContinueConversation
    \/ GetMessagesByTreeEndpoint
    \/ GetSelectedMessagesPath
    \/ GetTreeMessagesEndpoint

Spec == Init /\ [][Next]_vars

\* the same program with one handler observed, or none
SpecStore == InitObserving({}) /\ [][Next]_vars

SpecSelect == InitObserving({"select"}) /\ [][Next]_vars

SpecTrim == InitObserving({"trim"}) /\ [][Next]_vars

SpecContinue == InitObserving({"continue"}) /\ [][Next]_vars

SpecDelete == InitObserving({"trim", "continue"}) /\ [][Next]_vars

SpecPersist == InitObserving({"persist"}) /\ [][Next]_vars


\* the answers of the handlers that look a row up by a caller-supplied id
SpecNotFound == InitObserving({"persist", "select", "trim"}) /\ [][Next]_vars

SpecTraversal == InitObserving({"traversal"}) /\ [][Next]_vars

SpecRange == InitObserving({"range"}) /\ [][Next]_vars

SpecTree == InitObserving({"tree"}) /\ [][Next]_vars

\* continue-conversation from the refresh to the persist, on the rows its
\* own persists made
NextRefresh == ContinueConversation

SpecRefresh ==
    InitObserving({"continue", "persist"}) /\ [][NextRefresh]_vars

\* bookmark creations and deletions, on the rows manual creation makes
NextBookmarkOnly ==
    \/ CreateMessage
    \/ CreateBookmarkEndpoint
    \/ DeleteBookmarkEndpoint

SpecBookmarkOnly == InitObserving({"bookmark"}) /\ [][NextBookmarkOnly]_vars

\* deletions of trees and cases that hold rows and bookmarks
NextDeleteTrees ==
    \/ CreateMessage
    \/ CreateBookmarkEndpoint
    \/ DeleteSimulation
    \/ DeleteCase

SpecDeleteTrees == InitObserving({}) /\ [][NextDeleteTrees]_vars

\* the handlers that delete rows, on bookmarked rows made by generation
\* persist
NextCascade ==
    \/ CreateBookmarkEndpoint
    \/ TrimMessagesAfterChildren
    \/ ContinueConversation
    \/ DeleteSimulation

SpecCascade == InitObserving({}) /\ [][NextCascade]_vars

\* select calls on a store that only ever holds unselected rows otherwise:
\* summarized messages are created unselected, select is the only handler
\* that sets the flag
NextSelectOnly ==
    \/ CreateSummarizedMessage
    \/ SelectMessage

SpecSelectOnly == InitObserving({"select"}) /\ [][NextSelectOnly]_vars

\* select requests served concurrently, on a store whose rows are created
\* unselected
NextConcurrentSelect ==
    \/ CreateSummarizedMessage
    \/ SelectCheck
    \/ SelectCommit

SpecConcurrentSelect == InitObserving({}) /\ [][NextConcurrentSelect]_vars

\* the steps of one create_tree call after another
NextCreateTree ==
    \/ CreateTreeSubmit
    \/ FutureCompletes
    \/ AsCompletedNext
    \/ ExecutorShutdown
    \/ CreateTreeSentinel

SpecCreateTree == InitObserving({}) /\ [][NextCreateTree]_vars

\* one save_messages_to_tree call after another, commit by commit, with
\* traversals served by other sessions in between; nothing else writes
NextSaving ==
    \/ SaveBegin
    \/ SaveCommit
    \/ SaveReturn
    \/ GetMessagesByTreeEndpoint

SpecSaving == InitObserving({"traversal"}) /\ [][NextSaving]_vars

(* ======================== properties checked ========================== *)

IsRoot(m) == m.parent_id = NULL

\* m's parent row is in the store and selected
ParentSelected(store, m) ==
    \E p \in store : p.id = m.parent_id /\ p.selected

\* another row with m's parent_id and m's tree is selected
SiblingSelected(store, m) ==
    \E s \in store : /\ s.id # m.id
                     /\ s.parent_id = m.parent_id
                     /\ s.simulation_id = m.simulation_id
                     /\ s.selected

C2_SelectedFormPath ==
    /\ \A a \in messages : \A b \in messages :
        (/\ a.selected /\ b.selected /\ a.id # b.id
         /\ a.simulation_id = b.simulation_id) => a.parent_id # b.parent_id
    /\ \A m \in messages :
        (m.selected /\ ~IsRoot(m)) => ParentSelected(messages, m)

\* a root and one of its two children are selected, after a rejected select
\* of the other child
C2_Witness ==
    /\ last.op = "select"
    /\ last.status = 400
    /\ \E r \in messages : \E c \in messages : \E d \in messages :
        /\ IsRoot(r) /\ r.selected
        /\ c.parent_id = r.id /\ c.selected
        /\ d.parent_id = r.id /\ d.id = last.id /\ ~d.selected
        /\ d.simulation_id = c.simulation_id

\* C3: at most one node among the nodes sharing a parent_id and a tree is
\* selected.
C3_OneSelectedSibling ==
    \A a \in messages : \A b \in messages :
        (/\ a.id # b.id
         /\ a.parent_id = b.parent_id
         /\ a.simulation_id = b.simulation_id) => ~(a.selected /\ b.selected)

\* C4: every selected node with a parent_id has a selected parent.
C4_SelectedParentSelected ==
    \A m \in messages :
        (m.selected /\ ~IsRoot(m)) => ParentSelected(messages, m)

\* C5: every node with a parent_id references a node of the same tree with
\* a strictly smaller id.
C5_ParentSameTreeSmallerId ==
    \A m \in messages :
        ~IsRoot(m) =>
            \E p \in messages : /\ p.id = m.parent_id
                                /\ p.simulation_id = m.simulation_id
                                /\ p.id < m.id

Cutoff(store, n) ==
    IF \E c \in store : c.parent_id = n
    THEN SetMax({c.id : c \in {x \in store : x.parent_id = n}})
    ELSE n

\* C7: after trim-after(N) on an existing node N the nodes of N's tree are
\* exactly the nodes of that tree that had id <= cutoff before the call.
C7_TrimKeepsUpToCutoff ==
    [][(last'.op = "trim" /\ Exists(messages, last'.id)) =>
        LET tree == Get(messages, last'.id).simulation_id
        IN  {m \in messages' : m.simulation_id = tree}
              = {m \in messages : /\ m.simulation_id = tree
                                  /\ m.id <= Cutoff(messages, last'.id)}]_vars

\* C8: trim-after(N) for an id N that is not in the store fails with
\* NotFound (404) and leaves the store unchanged.
C8_TrimUnknownIs404 ==
    [][(last'.op = "trim" /\ ~Exists(messages, last'.id)) =>
        (last'.status = 404 /\ messages' = messages)]_vars

\* trim-after of an unknown id was answered 404 on a store that holds nodes
\* with smaller and with larger ids
C8_Witness ==
    /\ last.op = "trim"
    /\ last.status = 404
    /\ \E a \in messages : a.id < last.id
    /\ \E b \in messages : b.id > last.id

\* C9: trim-after(N) deletes no node of another tree than N's, changes no
\* field of a surviving node, and returns the number of nodes it removed.
C9_TrimFrame ==
    [][(last'.op = "trim" /\ Exists(messages, last'.id)) =>
        LET tree == Get(messages, last'.id).simulation_id
        IN  /\ \A m \in messages \ messages' : m.simulation_id = tree
            /\ messages' \subseteq messages
            /\ last'.status = 200 =>
                 last'.ret = Cardinality(messages \ messages')]_vars

\* a trim has removed a node while a younger node of another tree survived
C9_Witness ==
    /\ last.op = "trim"
    /\ last.status = 200
    /\ last.ret > 0
    /\ Exists(messages, last.id)
    /\ \E m \in messages :
        /\ m.simulation_id # Get(messages, last.id).simulation_id
        /\ \E k \in last.deleted : m.id > k

\* the descendants of n: its children, their children, and so on
RECURSIVE Closure(_, _)
Closure(store, S) ==
    LET more == S \cup {m.id : m \in {x \in store : x.parent_id \in S}}
    IN  IF more = S THEN S ELSE Closure(store, more)

Descendants(store, n) ==
    Closure(store, {m.id : m \in {x \in store : x.parent_id = n}}) \ {n}

\* C10: delete-subtree-excluding-self(N) removes every descendant of N and
\* nothing else.
C10_DeleteSubtreeExact ==
    [][(/\ last'.op = "continue"
        /\ last'.refresh
        /\ last'.id # NULL
        /\ last'.phase # "case") =>
        last'.deleted = Descendants(messages, last'.id)]_vars

\* C11: delete-subtree-excluding-self and trim-after are all-or-nothing:
\* when a step of the operation fails (a commit is rolled back, or an error
\* ends the operation), no delete of the operation is durable.
C11_DeletesAllOrNothing ==
    [][/\ (/\ last'.op = "continue"
           /\ last'.refresh
           /\ last'.rolled_back \/ last'.phase = "delete") =>
              last'.deleted = {}
       /\ (last'.op = "trim" /\ last'.status = 500) =>
              messages' = messages]_vars

\* the calls that have finished with a result, in the order they finished
ValidCompleted ==
    SelectSeq(gen.completed, LAMBDA i : gen.results[i] # None)

\* C12: when at least one of the three calls has returned a structurally
\* valid result, what create_tree returns is valid and is the result of the
\* first of those calls to finish, never the error tree.
C12_FirstValidWins ==
    (gen.phase = "returned" /\ ValidCompleted # <<>>) =>
        /\ gen.returned = gen.results[Head(ValidCompleted)]
        /\ gen.returned = gen.responses[Head(ValidCompleted)].data
        /\ Validates(gen.returned)
        /\ gen.returned # SentinelTree

\* create_tree has returned the result of the call that finished second,
\* after a failed call, and the last call then finished with another result
C12_Witness ==
    /\ gen.phase = "returned"
    /\ Len(gen.completed) = 3
    /\ gen.results[gen.completed[1]] = None
    /\ gen.returned = gen.results[gen.completed[2]]
    /\ gen.results[gen.completed[3]] \notin {None, gen.returned}

\* all three calls have finished without a result
AllFailed ==
    /\ Len(gen.completed) = Cardinality(Calls)
    /\ \A i \in Calls : gen.results[i] = None

\* C13: when all three calls fail, create_tree does not raise: once the
\* loop has taken them all it returns the error tree, one level-1 node with
\* an empty responses list.
C13_AllFailedGivesSentinel ==
    (AllFailed /\ gen.phase # "racing") =>
        /\ gen.phase = "returned"
        /\ gen.returned = SentinelTree
        /\ gen.returned.responses = <<>>

\* the error tree was returned after one call raised, one returned text
\* that is not JSON and one returned JSON without a required field
C13_Witness ==
    /\ gen.phase = "returned"
    /\ gen.returned = SentinelTree
    /\ {gen.responses[i].kind : i \in Calls} = {"raise", "text", "json"}

\* C14: a generation call whose accepted response is structurally valid
\* inserts exactly 13 nodes in new-root mode and exactly 12 in continuation
\* mode.
C14_InsertsFullTree ==
    [][(/\ last'.op = "continue"
        /\ last'.phase = "save"
        /\ last'.status = 200
        /\ last'.tree # SentinelTree) =>
        Cardinality(last'.inserted) = IF last'.id = NULL THEN 13 ELSE 12]_vars

\* C15: the inserts of one generation persist are atomic: when the persist
\* fails (it answers 500), none of its nodes remain in the store.
C15_PersistAllOrNothing ==
    [][(/\ last'.op = "continue"
        /\ last'.phase = "save"
        /\ last'.status = 500) =>
        last'.inserted = {}]_vars

\* the k-th smallest element of a set of ids
RECURSIVE Nth(_, _)
Nth(S, k) == IF k = 1 THEN SetMin(S) ELSE Nth(S \ {SetMin(S)}, k - 1)

\* the rows ins hang under the row level1 as the tree says: the children of
\* level1 are the level-2 responses in order, the children of the k-th of
\* them are its level-3 responses, and there is no other row
Attached(ins, level1, tree) ==
    LET l2 == {m \in ins : m.parent_id = level1.id /\ m.id # level1.id}
        l3 == (ins \ {level1}) \ l2
        l2ids == {m.id : m \in l2}
    IN  /\ Cardinality(l2) = Len(tree.responses)
        /\ \A m \in l3 : m.parent_id \in l2ids
        /\ \A k \in 1..Len(tree.responses) :
            LET node == CHOOSE m \in l2 : m.id = Nth(l2ids, k)
                below == {m \in l3 : m.parent_id = node.id}
            IN  /\ node.content = tree.responses[k].line
                /\ node.role = tree.responses[k].speaker
                /\ Cardinality(below) = Len(tree.responses[k].responses)
                /\ \A m \in below : \E j \in 1..Len(tree.responses[k].responses) :
                    /\ m.content = tree.responses[k].responses[j].line
                    /\ m.role = tree.responses[k].responses[j].speaker

\* C16: a persist with no prior node id inserts exactly one new root holding
\* the level-1 content; with a prior node id it inserts no level-1 node,
\* leaves the existing node unchanged, and attaches the level-2 nodes as
\* children of that node and the level-3 nodes as children of their level-2
\* nodes.
C16_PersistShape ==
    [][(/\ last'.op = "continue"
        /\ last'.phase = "save"
        /\ last'.status = 200) =>
        LET ins == {m \in messages' : m.id \in last'.inserted}
            roots == {m \in ins : m.parent_id = NULL}
        IN  IF last'.id = NULL
            THEN /\ Cardinality(roots) = 1
                 /\ \A r \in roots : /\ r.content = last'.tree.line
                                     /\ r.role = last'.tree.speaker
                                     /\ Attached(ins, r, last'.tree)
            ELSE /\ roots = {}
                 /\ Exists(messages, last'.id)
                 /\ Get(messages, last'.id) \in messages'
                 /\ Attached(ins, Get(messages, last'.id), last'.tree)]_vars

\* a continuation persist has put a level-2 node under the existing node
\* and a level-3 node under that level-2 node
C16_Witness ==
    /\ last.op = "continue"
    /\ last.phase = "save"
    /\ last.status = 200
    /\ last.id # NULL
    /\ \E a \in messages : \E b \in messages :
        /\ a.id \in last.inserted /\ a.parent_id = last.id
        /\ b.id \in last.inserted /\ b.parent_id = a.id

\* C17: when all three generation calls fail, so that create_tree returns
\* the error tree, a request that names an existing tree (and, in
\* continuation mode, an existing node) and meets no engine failure is
\* answered with a success status; the persist inserts exactly one node, the
\* root holding the error line, in new-root mode and none in continuation
\* mode.
C17_SentinelSoftFailure ==
    [][(/\ last'.op = "continue"
        /\ last'.phase = "save"
        /\ last'.tree = SentinelTree
        /\ last'.tree_id \in Simulations
        /\ ~last'.faulted
        /\ last'.id = NULL \/ Exists(messages, last'.id)) =>
        /\ last'.status = 200
        /\ Cardinality(last'.inserted) = IF last'.id = NULL THEN 1 ELSE 0
        /\ \A m \in messages' :
            m.id \in last'.inserted =>
                /\ m.parent_id = NULL
                /\ m.content = SentinelTree.line]_vars

\* the error tree was persisted both ways: the store holds a root with the
\* error line, and the last request, a continuation on an existing node with
\* the error tree, was answered 200 and inserted nothing
C17_Witness ==
    /\ last.op = "continue"
    /\ last.phase = "save"
    /\ last.tree = SentinelTree
    /\ last.status = 200
    /\ last.id # NULL
    /\ last.inserted = {}
    /\ \E m \in messages : m.id = last.id
    /\ \E r \in messages : r.parent_id = NULL /\ r.content = SentinelTree.line

\* C18: select calls that run concurrently on unselected siblings (same
\* parent, same tree, parent selected or both roots) never end with both
\* siblings selected.
C18_ConcurrentSelectsExclude ==
    \A a \in messages : \A b \in messages :
        (/\ a.id # b.id
         /\ a.parent_id = b.parent_id
         /\ a.simulation_id = b.simulation_id
         /\ IsRoot(a) \/ ParentSelected(messages, a)) =>
            ~(a.selected /\ b.selected)

\* C19: path-mode traversal for an existing node T returns the chain from a
\* root to T: the first element has no parent, the last element is T, and
\* every other element's parent is the element before it.
C19_PathRootToTarget ==
    [][(/\ last'.op = "traversal"
        /\ last'.id # NULL
        /\ Exists(messages, last'.id)) =>
        LET path == last'.path
        IN  /\ last'.status = 200
            /\ path # <<>>
            /\ Get(messages, path[1]).parent_id = NULL
            /\ path[Len(path)] = last'.id
            /\ \A k \in 2..Len(path) :
                Get(messages, path[k]).parent_id = path[k - 1]]_vars

\* C20: path-mode traversal for a message_id that is not in the store fails
\* with NotFound (404).
C20_PathUnknownIs404 ==
    [][(/\ last'.op = "traversal"
        /\ last'.id # NULL
        /\ ~Exists(messages, last'.id)) =>
        last'.status = 404]_vars

\* a is a proper ancestor of the row n, following parent_id at most
\* `steps` times
RECURSIVE IsAncestor(_, _, _, _)
IsAncestor(store, a, n, steps) ==
    /\ steps > 0
    /\ Exists(store, n)
    /\ Get(store, n).parent_id # NULL
    /\ \/ Get(store, n).parent_id = a
       \/ IsAncestor(store, a, Get(store, n).parent_id, steps - 1)

\* the sequence is a depth-first pre-order of the rows it names: parents
\* before children, each group of siblings (the roots included) in
\* ascending id order, and the descendants of a row directly after it,
\* before any row that is not its descendant
PreOrder(store, path) ==
    /\ \A i, j \in 1..Len(path) : path[i] = path[j] => i = j
    /\ \A i \in 1..Len(path) :
        /\ Exists(store, path[i])
        /\ LET parent_id == Get(store, path[i]).parent_id
           IN  parent_id # NULL =>
                   \E h \in 1..(i - 1) : path[h] = parent_id
    /\ \A i, j \in 1..Len(path) :
        (/\ i < j
         /\ Get(store, path[i]).parent_id = Get(store, path[j]).parent_id)
        => path[i] < path[j]
    /\ \A i, j, k \in 1..Len(path) :
        (/\ i < j
         /\ j < k
         /\ IsAncestor(store, path[i], path[k], Len(path)))
        => IsAncestor(store, path[i], path[j], Len(path))

\* C21: full-tree traversal (message_id omitted) answers with the rows in
\* depth-first pre-order: roots in ascending id order, every row directly
\* followed by the traversal of its children in ascending id order, every
\* non-root row after its parent.
C21_FullTraversalPreOrder ==
    [][(/\ last'.op = "traversal"
        /\ last'.id = NULL) =>
        /\ last'.status = 200
        /\ PreOrder(messages, last'.path)]_vars

\* a traversal of a tree with two roots, the first of which has a child:
\* the child is emitted between the roots
C21_Witness ==
    /\ last.op = "traversal"
    /\ last.id = NULL
    /\ Len(last.path) = 3
    /\ Get(messages, last.path[2]).parent_id = last.path[1]
    /\ Get(messages, last.path[3]).parent_id = NULL
    /\ last.path[3] < last.path[2]

\* the rows a selected-range query has to return
SelectedInRange(store, start_id, end_id) ==
    {m.id : m \in {r \in store : /\ r.selected
                                 /\ start_id <= r.id
                                 /\ r.id <= end_id}}

\* C22: selected-range(start_id, end_id) answers with exactly the selected
\* rows whose id lies in [start_id, end_id], in strictly ascending id order;
\* an empty result is answered 404 and start_id > end_id is answered 400.
C22_SelectedRange ==
    [][last'.op = "range" =>
        LET start_id == last'.id
            end_id == last'.ret
            path == last'.path
            wanted == SelectedInRange(messages, start_id, end_id)
        IN  /\ last'.status = (IF start_id > end_id THEN 400
                               ELSE IF wanted = {} THEN 404 ELSE 200)
            /\ last'.status = 200 =>
                /\ {path[k] : k \in 1..Len(path)} = wanted
                /\ \A k \in 1..(Len(path) - 1) : path[k] < path[k + 1]]_vars

\* a range query answered with two selected rows while a row inside the
\* range is not selected
C22_Witness ==
    /\ last.op = "range"
    /\ last.status = 200
    /\ Len(last.path) = 2
    /\ \E m \in messages : ~m.selected /\ last.id <= m.id /\ m.id <= last.ret

\* the ids of the entries of a nested output, in the order given
EntryIds(entries) == [k \in 1..Len(entries) |-> entries[k].id]

\* the entries are the wanted rows in ascending id order, and under each
\* entry the children of its row, recursively
RECURSIVE NestedUnder(_, _, _)
NestedUnder(store, entries, wanted) ==
    /\ EntryIds(entries) = SortedIds(wanted)
    /\ \A k \in 1..Len(entries) :
        NestedUnder(store, entries[k].children,
                    {m.id : m \in Children(store, entries[k].id)})

\* C23: the nested tree-messages output of a tree has as top-level entries
\* exactly the rows of the tree without a parent, in ascending id order, and
\* under each entry exactly the children of its row in ascending id order,
\* recursively.
C23_NestedOutput ==
    [][(/\ last'.op = "tree"
        /\ last'.status = 200) =>
        NestedUnder(messages, last'.nested,
                    {m.id : m \in {r \in messages :
                                      /\ r.simulation_id = last'.tree_id
                                      /\ r.parent_id = NULL}})]_vars

\* the bookmarks of one (tree_id, message_id) pair
BookmarksOf(marks, simulation_id, message_id) ==
    {b \in marks : /\ b.simulation_id = simulation_id
                   /\ b.message_id = message_id}

C26_NoDanglingBookmark ==
    \A b \in bookmarks : Exists(messages, b.message_id)


\* the first bookmark went with its row (no handler of this specification
\* deletes a bookmark itself) while the second bookmark and its row stay
C26_Witness ==
    /\ \E b \in bookmarks : b.id = 2 /\ Exists(messages, b.message_id)
    /\ ~\E b \in bookmarks : b.id = 1
    /\ simulations = {Simulation(id, id) : id \in Simulations}


\* C25: deleting a tree removes its rows and its bookmarks, deleting a case
\* removes its trees with their rows and bookmarks, and the rows, bookmarks
\* and trees of other trees and cases are unchanged.
C25_DeleteTreeFrame ==
    [][(simulations' # simulations \/ cases' # cases) =>
        LET gone == SimulationIds \ {sim.id : sim \in simulations'}
        IN  /\ simulations' = {sim \in simulations : sim.id \notin gone}
            /\ messages' = {m \in messages : m.simulation_id \notin gone}
            /\ bookmarks' = {b \in bookmarks : b.simulation_id \notin gone}
            /\ IF cases' = cases
               THEN Cardinality(gone) = 1
               ELSE \E case_id \in cases :
                       /\ cases' = cases \ {case_id}
                       /\ gone = {sim.id : sim \in
                                     {x \in simulations :
                                         x.case_id = case_id}}]_vars


\* C27: a request that names a case or a row that does not exist is
\* answered 404: continue with an unknown case_id or an unknown message_id,
\* select with an unknown message_id, trim-after with an unknown message_id.
C27_UnknownIs404 ==
    [][(\/ /\ last'.op = "continue"
           /\ \/ last'.phase = "case"
              \/ last'.id # NULL /\ ~Exists(messages, last'.id)
        \/ /\ last'.op \in {"select", "trim"}
           /\ ~Exists(messages, last'.id))
       => last'.status = 404]_vars


\* C28: a select refused because the parent is not selected, or because a
\* sibling is already selected, is answered 400 with a detail that names
\* the id of the unselected parent, respectively of the selected sibling.
C28_RejectionNamesConflict ==
    [][(/\ last'.op = "select"
        /\ Exists(messages, last'.id)
        /\ last'.status # 200) =>
        LET m == Get(messages, last'.id)
        IN  /\ last'.status = 400
            /\ \/ /\ ~IsRoot(m)
                  /\ ~ParentSelected(messages, m)
                  /\ last'.ret = m.parent_id
               \/ /\ last'.ret # NULL
                  /\ \E sibling \in messages :
                      /\ sibling.id = last'.ret
                      /\ sibling.id # m.id
                      /\ sibling.parent_id = m.parent_id
                      /\ sibling.selected]_vars

\* C29: continue(message_id = M, refresh = true) deletes the descendants of
\* M before it generates and persists: when generation returns a valid
\* tree and the request succeeds, the children of M after the call are
\* exactly the level-2 rows the call inserted, and every previous
\* descendant of M has been deleted.
C29_RefreshReplacesChildren ==
    [][(/\ last'.op = "continue"
        /\ last'.refresh
        /\ last'.id # NULL
        /\ last'.phase = "save"
        /\ last'.status = 200
        /\ last'.tree # SentinelTree) =>
        /\ last'.deleted = Descendants(messages, last'.id)
        /\ {m.id : m \in Children(messages', last'.id)} \subseteq last'.inserted
        /\ Cardinality(Children(messages', last'.id))
              = Len(last'.tree.responses)]_vars

\* C30: once a row is selected, a select of another row with the same
\* parent and tree fails and changes nothing; no select makes a second
\* sibling selected, and no select takes the flag from a selected row.
C30_SelectedSiblingStays ==
    [][last'.op = "select" =>
        /\ \A m \in messages :
            m.selected => \E n \in messages' : n.id = m.id /\ n.selected
        /\ (/\ Exists(messages, last'.id)
            /\ SiblingSelected(messages, Get(messages, last'.id)))
           => /\ last'.status # 200
              /\ messages' = messages
        /\ \A n \in messages' :
            (/\ n.selected
             /\ \E m \in messages : m.id = n.id /\ ~m.selected)
            => ~SiblingSelected(messages', n)]_vars

\* a select was refused because of a selected sibling, whose parent is
\* selected as well, and the sibling is still the selected one
C30_Witness ==
    /\ last.op = "select"
    /\ last.status = 400
    /\ \E m \in messages :
        /\ m.id = last.id
        /\ ~m.selected
        /\ ~IsRoot(m)
        /\ ParentSelected(messages, m)
        /\ \E s \in messages : /\ s.id = last.ret
                               /\ s.parent_id = m.parent_id
                               /\ s.simulation_id = m.simulation_id
                               /\ s.selected

\* C31: select marks a row selected only if the row is a leaf: a select of
\* a row that has at least one child is refused and changes nothing.
C31_SelectOnlyLeaf ==
    [][(/\ last'.op = "select"
        /\ Exists(messages, last'.id)
        /\ Children(messages, last'.id) # {}) =>
        /\ last'.status # 200
        /\ messages' = messages]_vars


\* C32: continue without refresh on a row that already has children inserts
\* no row (it returns the existing children and does not generate), so
\* repeating it never increases the number of children of that row.
C32_ContinueKeepsChildren ==
    [][(/\ last'.op = "continue"
        /\ ~last'.refresh
        /\ last'.id # NULL
        /\ Children(messages, last'.id) # {}) =>
        /\ last'.inserted = {}
        /\ Cardinality(Children(messages', last'.id))
              <= Cardinality(Children(messages, last'.id))]_vars


\* C33: once the loop has taken a structurally valid result, create_tree
\* returns it without waiting for the outstanding calls: the caller has the
\* result whether or not the other calls have finished.
C33_ReturnsWithoutWaiting ==
    (gen.phase = "returned" /\ gen.returned # SentinelTree) => gen.exited


\* the ids of the rows the save_messages_to_tree call in progress inserts
SavingIds ==
    Ids(SaveMessagesToTree(saving.base, saving.tree, saving.tree_id, saving.last_message_id, 0).store) \ Ids(saving.base)

\* C34: a full-tree traversal served while a generation persist call on the
\* same tree is in progress sees either none of the rows of that call or all
\* of them, never a part of them.
C34_NoPartialSubtree ==
    [][(/\ saving.phase = "saving"
        /\ saving' = saving
        /\ last'.op = "traversal"
        /\ last'.id = NULL
        /\ last'.tree_id = saving.tree_id) =>
        LET seen == {last'.path[k] : k \in 1..Len(last'.path)}
        IN  \/ seen \cap SavingIds = {}
            \/ SavingIds \subseteq seen]_vars


\* C35: a successful select changes the selected flag of the target row to
\* true and nothing else: every other row and every other field stay as they
\* were, no row is created or deleted; a failed select changes nothing.
C35_SelectFrame ==
    [][last'.op = "select" =>
        /\ IF last'.status = 200
           THEN \E m \in messages :
                   /\ m.id = last'.id
                   /\ messages' = (messages \ {m})
                                     \cup {[m EXCEPT !.selected = TRUE]}
           ELSE messages' = messages
        /\ <<simulations, cases, bookmarks>>' = <<simulations, cases, bookmarks>>]_vars

\* a select has succeeded on a row while the store holds a sibling of it,
\* which is still unselected, and a selected row of another tree
C35_Witness ==
    /\ last.op = "select"
    /\ last.status = 200
    /\ \E a \in messages : \E b \in messages : \E c \in messages :
        /\ a.id = last.id
        /\ a.selected
        /\ b.id # a.id
        /\ b.parent_id = a.parent_id
        /\ b.simulation_id = a.simulation_id
        /\ ~b.selected
        /\ c.simulation_id # a.simulation_id
        /\ c.selected

\* C36: continue with refresh = true deletes only descendants of the
\* message_id it is given: every row it deletes is a descendant of that row
\* and belongs to the tree of that row, and when message_id is absent it
\* deletes nothing.
C36_RefreshDeletesOnlyDescendants ==
    [][(/\ last'.op = "continue"
        /\ last'.refresh
        /\ last'.phase # "case") =>
        IF last'.id = NULL
        THEN last'.deleted = {}
        ELSE /\ last'.deleted \subseteq Descendants(messages, last'.id)
             /\ \A m \in messages : \A d \in messages :
                 (m.id = last'.id /\ d.id \in last'.deleted) =>
                     d.simulation_id = m.simulation_id]_vars


\* C37: no store reachable through the public operations holds a cycle of
\* parent_id references: no row is its own ancestor, so the upward walk of
\* path-mode traversal and the recursive descent of delete-subtree end in
\* every reachable store.
C37_NoParentCycle ==
    \A m \in messages :
        ~IsAncestor(messages, m.id, m.id, Cardinality(messages))


\* the selection invariants on a set of rows: no two rows with the same
\* parent_id and tree are both selected, and every selected non-root row has
\* a selected parent among the rows
SelectionInvariants(store) ==
    /\ \A a \in store : \A b \in store :
        (/\ a.id # b.id
         /\ a.parent_id = b.parent_id
         /\ a.simulation_id = b.simulation_id) => ~(a.selected /\ b.selected)
    /\ \A m \in store : (m.selected /\ ~IsRoot(m)) => ParentSelected(store, m)

C39_RangeInOneTree ==
    [][(last'.op = "range" /\ last'.status = 200) =>
        \A i, j \in 1..Len(last'.path) :
            Get(messages, last'.path[i]).simulation_id
                = Get(messages, last'.path[j]).simulation_id]_vars


\* C40: full-tree traversal of a tree emits every row of that tree exactly
\* once and no row of another tree, in every reachable store.
C40_FullTraversalComplete ==
    [][(last'.op = "traversal" /\ last'.id = NULL) =>
        /\ last'.status = 200
        /\ \A i, j \in 1..Len(last'.path) :
            last'.path[i] = last'.path[j] => i = j
        /\ {last'.path[k] : k \in 1..Len(last'.path)}
              = {m.id : m \in {r \in messages :
                                  r.simulation_id = last'.tree_id}}]_vars

=============================================================================
